---- MODULE Spec2Model ----
(***************************************************************************)
(* Model of the l-lab-site authentication and authorization surfaces:      *)
(*   - netlify/functions/auth.ts   (login handler)                         *)
(*   - netlify/functions/posts.ts  (posts handler, verifyToken)            *)
(*   - src/lib/api.ts              (client request helpers, utils)         *)
(*   - src/components/App.tsx      (App, LoginForm, CreatePost)            *)
(*                                                                         *)
(* JSON values are modelled structurally: a JSON object is a TLA+ record   *)
(* whose DOMAIN is the set of keys JSON.stringify emits.  All scalar       *)
(* values are strings; the JavaScript value `undefined` is the string      *)
(* Undefined, which no program value equals.                               *)
(***************************************************************************)
EXTENDS Naturals, Integers, Sequences, FiniteSets, TLC

VARIABLES
    posts,          \* prisma.post rows, in insertion order
    tags,           \* prisma.tag rows, in insertion order
    createdBy,      \* history: createdBy[i] = header that created posts[i]
    postsReq,       \* history: the last request, when the posts handler got it
    postsResp,      \* the response to postsReq
    dbCalls,        \* history: storage calls the posts handler made for postsReq
    authReq,        \* history: the last request, when the auth handler got it
    authResp,       \* the response to authReq
    localStorage,   \* browser cache: entries 'token' and 'user'
    helperCall,     \* history: last call of a utils function and its outcome
    app,            \* React state of App and of the mounted LoginForm
    net             \* client requests in flight, and history of the finished ones

vars == <<posts, tags, createdBy, postsReq, postsResp, dbCalls,
          authReq, authResp, localStorage, helperCall, app, net>>

storeVars  == <<posts, tags, createdBy>>
postsVars  == <<postsReq, postsResp, dbCalls>>
authVars   == <<authReq, authResp>>
clientVars == <<localStorage, helperCall, app, net>>

----------------------------------------------------------------------------
(* Bounds *)

MaxPosts == 2
MaxInFlight == 2
MaxHandlerPosts == 1

----------------------------------------------------------------------------
(* JavaScript values *)

Undefined == "undefined"
None      == "none"
(* A value of the request body that is no string (a number, an object) *)
NonString == "non-string"
IsString(v) == v \notin {Undefined, NonString}

(* The stored users (prisma.user).  No code in the repository writes this  *)
(* table, so it is constant.  password holds the bcrypt hash.              *)
BcryptHashed(pw) ==
    CASE pw = "pw1" -> "$2a$pw1"
      [] pw = "pw2" -> "$2a$pw2"
      [] pw = "bad" -> "$2a$bad"
      [] pw = ""    -> "$2a$"
      [] OTHER      -> "$2a$other"

StoredUsers ==
    { [id |-> "u1", name |-> "Ann", email |-> "a@x", role |-> "teacher",
       avatarUrl |-> "a.png", password |-> BcryptHashed("pw1")],
      [id |-> "u2", name |-> "Bob", email |-> "b@x", role |-> "student",
       avatarUrl |-> "b.png", password |-> BcryptHashed("pw2")] }

UserIds == { u.id : u \in StoredUsers }
UserById(id) == CHOOSE u \in StoredUsers : u.id = id

Emails    == {"a@x", "b@x", "no@x", Undefined, NonString}
Passwords == {"pw1", "pw2", "bad", Undefined, NonString}
Actions   == {"login", "register", Undefined}

----------------------------------------------------------------------------
(* jsonwebtoken: a token carries a payload and a signature; the signature  *)
(* names the payload it was computed over and the key it was computed with *)

JWT_SECRET == "your-secret-key"

jwtSign(userId, secret) ==
    [form |-> "jwt", userId |-> userId, sigOver |-> userId, sigKey |-> secret]

jwtVerifies(token, secret) ==
    /\ token.form = "jwt"
    /\ token.sigOver = token.userId
    /\ token.sigKey = secret

verifyTokenBroken(token) ==
    IF token.form = "jwt"
    THEN [userId |-> token.userId]
    ELSE [userId |-> None]

(* posts.ts verifyToken: the decoded payload, or null ([userId |-> None])  *)
verifyToken(token) ==
    IF jwtVerifies(token, JWT_SECRET)
    THEN [userId |-> token.userId]
    ELSE [userId |-> None]

(* bcrypt.compare(password, hash): throws on a non-string argument *)
bcryptCompare(password, hash) ==
    IF ~IsString(password) THEN "throws"
    ELSE IF BcryptHashed(password) = hash THEN "true" ELSE "false"

----------------------------------------------------------------------------
(* auth.ts *)

(* JSON.stringify of an object drops the keys whose value is undefined *)
StripUndefined(obj) ==
    [k \in {f \in DOMAIN obj : obj[f] # Undefined} |-> obj[k]]

(* { ...user, password: undefined } *)
LoginUserSpreadLeaky(user) == user

LoginUserSpread(user) ==
    [k \in DOMAIN user |-> IF k = "password" THEN Undefined ELSE user[k]]

Response(status, body) == [statusCode |-> status, body |-> body]
InternalServerError == Response(500, [message |-> "Internal server error"])

(* An exception thrown inside a handler's try block, before it is caught;  *)
(* a handler that lets it escape ends with this instead of a response.     *)
Threw == Response(0, [message |-> "exception"])

(* prisma.user.findUnique({ where: { email } }) *)
findUniqueUser(email) == { u \in StoredUsers : u.email = email }

LoginBranchEnumerating(email, password) ==
    LET found == findUniqueUser(email) IN
    IF found = {}
    THEN Response(404, [message |-> "User not found"])
    ELSE LET user == CHOOSE u \in found : TRUE
             cmp  == bcryptCompare(password, user.password) IN
         IF cmp = "throws" THEN Threw
         ELSE IF cmp = "false"
         THEN Response(401, [message |-> "Invalid credentials"])
         ELSE Response(200, [token |-> jwtSign(user.id, JWT_SECRET),
                             user  |-> StripUndefined(LoginUserSpread(user))])

LoginBranchNoCompare(email, password) ==
    LET found == findUniqueUser(email) IN
    IF found = {}
    THEN Response(401, [message |-> "Invalid credentials"])
    ELSE LET user == CHOOSE u \in found : TRUE IN
         IF ~IsString(password) THEN Threw
         ELSE Response(200, [token |-> jwtSign(user.id, JWT_SECRET),
                             user  |-> StripUndefined(LoginUserSpread(user))])

(* auth.ts lines 22-36, the body of `if (action === 'login')` *)
LoginBranch(email, password) ==
    LET found == findUniqueUser(email) IN
    IF found = {}
    THEN Response(401, [message |-> "Invalid credentials"])
    ELSE LET user == CHOOSE u \in found : TRUE
             cmp  == bcryptCompare(password, user.password) IN
         IF cmp = "throws" THEN Threw
         ELSE IF cmp = "false"
         THEN Response(401, [message |-> "Invalid credentials"])
         ELSE Response(200, [token |-> jwtSign(user.id, JWT_SECRET),
                             user  |-> StripUndefined(LoginUserSpread(user))])

(* JSON.parse(event.body || '{}') of the auth request *)
AuthBodies ==
    {[kind |-> "absent",  email |-> Undefined, password |-> Undefined,
      action |-> Undefined],
     [kind |-> "corrupt", email |-> Undefined, password |-> Undefined,
      action |-> Undefined]}
    \cup [kind : {"object"}, email : Emails, password : Passwords,
          action : Actions]

(* auth.ts lines 19-42, the try block.  dbOk = FALSE: the storage call     *)
(* rejects.  findUnique rejects an email that is missing or no string.     *)
AuthTry(event, dbOk) ==
    IF event.body.kind = "corrupt" THEN Threw
    ELSE IF event.body.action = "login"
    THEN IF ~IsString(event.body.email) \/ ~dbOk
         THEN Threw
         ELSE LoginBranch(event.body.email, event.body.password)
    ELSE Response(400, [message |-> "Invalid action"])

AuthCatchRethrow(r) == r

(* auth.ts lines 43-48: catch (error) *)
AuthCatch(r) == IF r.statusCode = 0 THEN InternalServerError ELSE r

(* auth.ts handler *)
AuthHandler(event, dbOk) ==
    IF event.httpMethod # "POST"
    THEN Response(405, [message |-> "Method not allowed"])
    ELSE AuthCatch(AuthTry(event, dbOk))

----------------------------------------------------------------------------
(* posts.ts *)

(* Tokens a request can carry.  form "absent" is JavaScript undefined,     *)
(* form "empty" the empty string, form "garbage" a string that is no JWT.  *)
NoToken      == [form |-> "absent",  userId |-> None, sigOver |-> None, sigKey |-> None]
EmptyToken   == [form |-> "empty",   userId |-> None, sigOver |-> None, sigKey |-> None]
GarbageToken == [form |-> "garbage", userId |-> None, sigOver |-> None, sigKey |-> None]
ForgedToken  == jwtSign("u1", "attacker-key")

(* The Authorization header, already cut at its spaces: scheme is the text *)
(* before the first space, rest the pieces after it.                       *)
NoHeader      == [present |-> FALSE, scheme |-> None, rest |-> <<>>]
Bearer(token) == [present |-> TRUE, scheme |-> "Bearer", rest |-> <<token>>]
BareHeader    == [present |-> TRUE, scheme |-> "garbage", rest |-> <<>>]

ValidHeaders   == { Bearer(jwtSign(id, JWT_SECRET)) : id \in UserIds }
InvalidHeaders == { NoHeader, BareHeader, Bearer(EmptyToken),
                    Bearer(GarbageToken), Bearer(ForgedToken) }
Headers        == ValidHeaders \cup InvalidHeaders

(* event.headers.authorization?.split(' ')[1] *)
HeaderToken(header) ==
    IF ~header.present THEN NoToken
    ELSE IF Len(header.rest) = 0 THEN NoToken
    ELSE header.rest[1]

(* const decoded = token ? verifyToken(token) : null *)
decodedOf(header) ==
    LET token == HeaderToken(header) IN
    IF token.form \in {"absent", "empty"}
    THEN [userId |-> None]
    ELSE verifyToken(token)

(* author: { select: { id, name, email, avatarUrl } } *)
AuthorSelect(user) ==
    [k \in {"id", "name", "email", "avatarUrl"} |-> user[k]]

(* include: { author: {select ...}, tags: true } *)
PostView(p, store) ==
    [id |-> p.id, title |-> p.title, content |-> p.content,
     category |-> p.category, authorId |-> p.authorId,
     author |-> AuthorSelect(UserById(p.authorId)),
     tags |-> { store[i] : i \in p.tags }]

(* prisma.post.findMany({ include }) *)
findManyPosts(rows, store) ==
    [i \in 1..Len(rows) |-> PostView(rows[i], store)]

RECURSIVE AlwaysCreate(_, _, _)
AlwaysCreate(store, names, ids) ==
    IF names = <<>> THEN [tags |-> store, ids |-> ids]
    ELSE LET id == Len(store) + 1 IN
         AlwaysCreate(Append(store, [id |-> id, name |-> Head(names)]),
                      Tail(names), ids \cup {id})

(* tags: { connectOrCreate: tags.map(tag => ({ where: {name: tag},        *)
(*                                             create: {name: tag} })) }   *)
(* Each entry, in order, connects the tag row with that name, creating it  *)
(* when no row has the name.                                               *)
RECURSIVE connectOrCreate(_, _, _)
connectOrCreate(store, names, ids) ==
    IF names = <<>> THEN [tags |-> store, ids |-> ids]
    ELSE LET hit == { i \in 1..Len(store) : store[i].name = Head(names) } IN
         IF hit # {}
         THEN connectOrCreate(store, Tail(names), ids \cup hit)
         ELSE LET id == Len(store) + 1 IN
              connectOrCreate(Append(store, [id |-> id, name |-> Head(names)]),
                              Tail(names), ids \cup {id})

(* JSON.parse(event.body || '{}') of the posts request.  tags is           *)
(* [kind |-> "list", names |-> ...] for an array of strings, "string" for  *)
(* a tags value that is no array, "undefined" when the key is missing.     *)
TagList(names) == [kind |-> "list", names |-> names]
NoTags         == [kind |-> "undefined", names |-> <<>>]
StringTags     == [kind |-> "string", names |-> <<>>]

(* A tag name is the sequence of its characters. *)
TagA == <<"a">>
TagB == <<"b">>
TagLists == { <<TagA>>, <<TagB>>, <<TagA, TagA, TagB>> }

PostBody(title, tagsValue, author) ==
    [kind |-> "object", title |-> title, content |-> "text",
     category |-> "tech", tags |-> tagsValue, author |-> author]

AbsentBody  == [kind |-> "absent", title |-> Undefined, content |-> Undefined,
                category |-> Undefined, tags |-> NoTags, author |-> Undefined]
CorruptBody == [kind |-> "corrupt", title |-> Undefined, content |-> Undefined,
                category |-> Undefined, tags |-> NoTags, author |-> Undefined]

PostBodies ==
    { PostBody("t", TagList(l), Undefined) : l \in TagLists }
    \cup { PostBody("t", TagList(<<TagA>>), "u2"),
           PostBody("t", NoTags, Undefined), PostBody("t", StringTags, Undefined),
           AbsentBody, CorruptBody }

Outcome(resp, rows, store, calls) ==
    [resp |-> resp, posts |-> rows, tags |-> store, dbCalls |-> calls]

Unauthorized == Response(401, [message |-> "Unauthorized"])

AuthorIdFromBody(decoded, body) ==
    IF body.author # Undefined THEN body.author ELSE decoded.userId

(* authorId: decoded.userId *)
AuthorIdOf(decoded, body) == decoded.userId

(* posts.ts lines 50-80: the create, once the token check has passed *)
CreateBranch(decoded, body, dbOk, rows, store) ==
    IF body.kind = "corrupt" \/ body.tags.kind # "list"
    THEN Outcome(Threw, rows, store, 0)
    ELSE IF ~dbOk \/ AuthorIdOf(decoded, body) \notin UserIds
    THEN Outcome(Threw, rows, store, 1)
    ELSE LET linked  == connectOrCreate(store, body.tags.names, {})
             newPost == [id |-> Len(rows) + 1, title |-> body.title,
                         content |-> body.content, category |-> body.category,
                         authorId |-> AuthorIdOf(decoded, body),
                         tags |-> linked.ids]
         IN Outcome(Response(201, PostView(newPost, linked.tags)),
                    Append(rows, newPost), linked.tags, 1)

GetBranchGated(decoded, dbOk, rows, store) ==
    IF decoded.userId = None
    THEN Outcome(Unauthorized, rows, store, 0)
    ELSE IF dbOk
    THEN Outcome(Response(200, [items |-> findManyPosts(rows, store)]),
                 rows, store, 1)
    ELSE Outcome(Threw, rows, store, 1)

(* posts.ts lines 23-40: case 'GET'.  A JSON array body is wrapped as      *)
(* [items |-> ...].                                                        *)
GetBranch(decoded, dbOk, rows, store) ==
    IF dbOk
    THEN Outcome(Response(200, [items |-> findManyPosts(rows, store)]),
                 rows, store, 1)
    ELSE Outcome(Threw, rows, store, 1)

(* if (!decoded) *)
GateClosed(decoded) == decoded.userId = None

(* posts.ts lines 19-87, the try block *)
PostsTry(event, dbOk, rows, store) ==
    LET decoded == decodedOf(event.header) IN
    CASE event.httpMethod = "GET" -> GetBranch(decoded, dbOk, rows, store)
      [] event.httpMethod = "POST" ->
           IF GateClosed(decoded)
           THEN Outcome(Unauthorized, rows, store, 0)
           ELSE CreateBranch(decoded, event.body, dbOk, rows, store)
      [] OTHER ->
           Outcome(Response(405, [message |-> "Method not allowed"]),
                   rows, store, 0)

(* posts.ts lines 88-93: catch (error) *)
PostsCatch(out) ==
    IF out.resp.statusCode = 0
    THEN [out EXCEPT !.resp = InternalServerError]
    ELSE out

(* posts.ts handler *)
PostsHandler(event, dbOk, rows, store) ==
    PostsCatch(PostsTry(event, dbOk, rows, store))

----------------------------------------------------------------------------
(* App.tsx CreatePost and api.ts request helpers *)

RECURSIVE SplitOn(_, _, _)
(* String.prototype.split(sep) on a sequence of characters; cur is the     *)
(* piece being collected.                                                  *)
SplitOn(chars, sep, cur) ==
    IF chars = <<>> THEN <<cur>>
    ELSE IF Head(chars) = sep
    THEN <<cur>> \o SplitOn(Tail(chars), sep, <<>>)
    ELSE SplitOn(Tail(chars), sep, Append(cur, Head(chars)))

RECURSIVE TrimStart(_)
TrimStart(chars) ==
    IF chars # <<>> /\ Head(chars) = " " THEN TrimStart(Tail(chars)) ELSE chars

RECURSIVE TrimEnd(_)
TrimEnd(chars) ==
    IF chars # <<>> /\ chars[Len(chars)] = " "
    THEN TrimEnd(SubSeq(chars, 1, Len(chars) - 1))
    ELSE chars

(* String.prototype.trim *)
Trim(chars) == TrimEnd(TrimStart(chars))

(* tags.split(',').map(tag => tag.trim()).filter(Boolean) *)
ParseTags(chars) ==
    LET pieces  == SplitOn(chars, ",", <<>>)
        trimmed == [i \in 1..Len(pieces) |-> Trim(pieces[i])]
    IN SelectSeq(trimmed, LAMBDA t : t # <<>>)

(* What the user types into the tags field: "a,a,b", " a ,", "b,, " *)
TagInputs ==
    { <<"a", ",", "a", ",", "b">>,
      <<" ", "a", " ", ",">>,
      <<"b", ",", ",", " ">> }

(* localStorage.getItem('token'): the cached token, NoToken when absent *)
getAuthHeaders(cache) ==
    IF cache.token.form \in {"absent", "empty"}
    THEN NoHeader
    ELSE Bearer(cache.token)

----------------------------------------------------------------------------
(* api.ts utils *)

(* A localStorage entry: absent, or a string.  A string is described by    *)
(* what JSON.parse makes of it: empty, not JSON (wellFormed = FALSE), or   *)
(* the text of a JSON value.                                               *)
NullValue   == [isNull |-> TRUE,  id |-> None, role |-> Undefined]
UserValue(id, role) == [isNull |-> FALSE, id |-> id, role |-> role]

AbsentEntry  == [present |-> FALSE, empty |-> FALSE, wellFormed |-> FALSE, value |-> NullValue]
EmptyEntry   == [present |-> TRUE,  empty |-> TRUE,  wellFormed |-> FALSE, value |-> NullValue]
CorruptEntry == [present |-> TRUE,  empty |-> FALSE, wellFormed |-> FALSE, value |-> NullValue]
(* JSON.stringify(value) *)
JsonEntry(v) == [present |-> TRUE,  empty |-> FALSE, wellFormed |-> TRUE,  value |-> v]

KnownRoles == {"student", "teacher", "admin"}
RoleStrings == KnownRoles \cup {"guest", "toString", "constructor", "__proto__"}

UserEntries ==
    { AbsentEntry, EmptyEntry, CorruptEntry, JsonEntry(NullValue),
      JsonEntry(UserValue("u1", Undefined)) }
    \cup { JsonEntry(UserValue("u1", r)) : r \in RoleStrings }

Returned(v) == [outcome |-> "return", value |-> v]
Thrown      == [outcome |-> "throw",  value |-> NullValue]

(* utils.isAuthenticated *)
isAuthenticated(cache) == cache.token.form \notin {"absent", "empty"}

clearAuthTokenOnly(cache) == [cache EXCEPT !.token = NoToken]

(* utils.clearAuth: removeItem('token'); removeItem('user') *)
clearAuth(cache) == [token |-> NoToken, user |-> AbsentEntry]

(* utils.getCurrentUser *)
getCurrentUser(cache) ==
    IF ~cache.user.present \/ cache.user.empty THEN Returned(NullValue)
    ELSE IF cache.user.wellFormed THEN Returned(cache.user.value)
    ELSE Thrown

(* JavaScript values met by the role comparison: a number, undefined, or   *)
(* an object inherited from Object.prototype.  str holds the first ten     *)
(* character codes of the string ToPrimitive turns the object into.        *)
JsNumber(n)   == [t |-> "number",    n |-> n, str |-> <<>>]
JsUndefined   == [t |-> "undefined", n |-> 0, str |-> <<>>]
JsObject(str) == [t |-> "object",    n |-> 0, str |-> str]

(* roles[key] for const roles = { admin: 3, teacher: 2, student: 1 }:      *)
(* own keys first, then the keys every object literal inherits.            *)
(*   roles.toString    -> "function toString() { [native code] }"          *)
(*   roles.constructor -> "function Object() { [native code] }"            *)
(*   roles.__proto__   -> "[object Object]"                                *)
rolesLookup(key) ==
    CASE key = "admin"   -> JsNumber(3)
      [] key = "teacher" -> JsNumber(2)
      [] key = "student" -> JsNumber(1)
      [] key = "toString" ->
           JsObject(<<102, 117, 110, 99, 116, 105, 111, 110, 32, 116>>)
      [] key = "constructor" ->
           JsObject(<<102, 117, 110, 99, 116, 105, 111, 110, 32, 79>>)
      [] key = "__proto__" ->
           JsObject(<<91, 111, 98, 106, 101, 99, 116, 32, 79, 98>>)
      [] OTHER -> JsUndefined

RECURSIVE StringLess(_, _)
(* a < b on strings: code unit order *)
StringLess(a, b) ==
    IF b = <<>> THEN FALSE
    ELSE IF a = <<>> THEN TRUE
    ELSE IF Head(a) # Head(b) THEN Head(a) < Head(b)
    ELSE StringLess(Tail(a), Tail(b))

(* a >= b of ECMAScript: both operands strings after ToPrimitive are       *)
(* compared as strings; otherwise both go through ToNumber, and a NaN on   *)
(* either side makes the comparison false.                                 *)
JsGreaterOrEqual(a, b) ==
    IF a.t = "object" /\ b.t = "object"
    THEN ~StringLess(a.str, b.str)
    ELSE IF a.t = "number" /\ b.t = "number"
    THEN a.n >= b.n
    ELSE FALSE

(* utils.hasPermission *)
hasPermission(cache, requiredRole) ==
    LET got == getCurrentUser(cache) IN
    IF got.outcome = "throw" THEN [outcome |-> "throw", result |-> FALSE]
    ELSE IF got.value.isNull THEN [outcome |-> "return", result |-> FALSE]
    ELSE [outcome |-> "return",
          result  |-> JsGreaterOrEqual(rolesLookup(got.value.role),
                                       rolesLookup(requiredRole))]

----------------------------------------------------------------------------
(* State machine *)

NoResponse == Response(0, [message |-> "none"])

NoAuthReq  == [httpMethod |-> "none",
               body |-> [kind |-> "absent", email |-> Undefined,
                         password |-> Undefined, action |-> Undefined],
               dbOk |-> TRUE]

NoPostsReq == [httpMethod |-> "none", header |-> NoHeader, body |-> AbsentBody,
               dbOk |-> TRUE, via |-> "none"]

NoCall     == [fn |-> "none", arg |-> None, outcome |-> "none",
               result |-> FALSE, value |-> NullValue]

EmptyCache    == [token |-> NoToken, user |-> AbsentEntry]
LoggedInCache == [token |-> jwtSign("u1", JWT_SECRET),
                  user  |-> JsonEntry(UserValue("u1", "teacher"))]

(* useState initial values; mounted = FALSE until the mount effect has run *)
AppInit == [mounted |-> FALSE, user |-> NullValue, loading |-> FALSE,
            posts |-> <<>>, currentPage |-> "home", isLoading |-> FALSE]

NoLogin == [email |-> None, password |-> None, stale |-> FALSE,
            statusCode |-> 0]

(* logins: login requests in flight; stale = logout ran since the request  *)
(* was sent, form = the LoginForm that sent it is still mounted.           *)
(* fetches: every fetchPosts call of this page load, in the order started. *)
(* lastLogin: the login that completed last.  loggedOut: logout has run    *)
(* and no login started after it has completed successfully.               *)
NetInit == [logins |-> <<>>, fetches |-> <<>>, lastLogin |-> NoLogin,
            loggedOut |-> FALSE]

ServerInit ==
    /\ posts = <<>>
    /\ tags = <<>>
    /\ createdBy = <<>>
    /\ postsReq = NoPostsReq
    /\ postsResp = NoResponse
    /\ dbCalls = 0
    /\ authReq = NoAuthReq
    /\ authResp = NoResponse
    /\ helperCall = NoCall
    /\ app = AppInit
    /\ net = NetInit

(* One invocation of the auth handler *)
AuthExchange(m, b, ok) ==
    LET event == [httpMethod |-> m, body |-> b] IN
    /\ authReq' = [httpMethod |-> m, body |-> b, dbOk |-> ok]
    /\ authResp' = AuthHandler(event, ok)
    /\ postsReq' = NoPostsReq
    /\ postsResp' = NoResponse
    /\ dbCalls' = 0

(* Any request to /auth; a GET carries no body *)
AuthRequest ==
    \E m \in {"GET", "POST"}, b \in AuthBodies, ok \in BOOLEAN :
        /\ m = "GET" => (b.kind = "absent" /\ ok)
        /\ AuthExchange(m, b, ok)
        /\ UNCHANGED <<storeVars, clientVars>>

(* POST /auth {email, password, action: "login"} with both strings given *)
Login ==
    \E e \in { x \in Emails : IsString(x) },
       p \in { x \in Passwords : IsString(x) } :
        /\ AuthExchange("POST", [kind |-> "object", email |-> e,
                                 password |-> p, action |-> "login"], TRUE)
        /\ UNCHANGED <<storeVars, clientVars>>

(* The posts handler run on one event, and its effects recorded *)
Serve(event, ok, via) ==
    LET out == PostsHandler(event, ok, posts, tags) IN
    /\ Len(out.posts) <= MaxPosts
    /\ posts' = out.posts
    /\ tags' = out.tags
    /\ createdBy' = IF Len(out.posts) > Len(posts)
                    THEN Append(createdBy, event.header)
                    ELSE createdBy
    /\ postsReq' = [httpMethod |-> event.httpMethod, header |-> event.header,
                    body |-> event.body, dbOk |-> ok, via |-> via]
    /\ postsResp' = out.resp
    /\ dbCalls' = out.dbCalls
    /\ authReq' = NoAuthReq
    /\ authResp' = NoResponse

(* GET /posts *)
GetPosts ==
    \E h \in Headers, ok \in BOOLEAN :
        /\ Serve([httpMethod |-> "GET", header |-> h, body |-> AbsentBody],
                 ok, "http")
        /\ UNCHANGED clientVars

(* POST /posts *)
PostPosts ==
    \E h \in Headers, b \in PostBodies, ok \in BOOLEAN :
        /\ Serve([httpMethod |-> "POST", header |-> h, body |-> b], ok, "http")
        /\ UNCHANGED clientVars

(* PUT and DELETE on /posts, as api.updatePost and api.deletePost send *)
OtherMethod ==
    \E m \in {"PUT", "DELETE"}, h \in Headers :
        /\ Serve([httpMethod |-> m, header |-> h, body |-> AbsentBody],
                 TRUE, "http")
        /\ UNCHANGED clientVars

(* CreatePost.handleSubmit -> api.createPost -> posts handler.  The form   *)
(* is rendered only while the in-memory user, loaded from the cached       *)
(* 'user' entry on mount, is set.                                          *)
ClientCreatePost ==
    \E input \in TagInputs, ok \in BOOLEAN :
        /\ getCurrentUser(localStorage).outcome = "return"
        /\ ~getCurrentUser(localStorage).value.isNull
        /\ Serve([httpMethod |-> "POST",
                  header |-> getAuthHeaders(localStorage),
                  body |-> PostBody("t", TagList(ParseTags(input)), Undefined)],
                 ok, "client")
        /\ UNCHANGED clientVars

(* utils.hasPermission(requiredRole) *)
HasPermission ==
    \E r \in RoleStrings :
        LET got == hasPermission(localStorage, r) IN
        /\ helperCall' = [fn |-> "hasPermission", arg |-> r,
                          outcome |-> got.outcome, result |-> got.result,
                          value |-> NullValue]
        /\ UNCHANGED <<storeVars, postsVars, authVars, localStorage, app, net>>

(* utils.getCurrentUser() *)
GetCurrentUser ==
    LET got == getCurrentUser(localStorage) IN
    /\ helperCall' = [fn |-> "getCurrentUser", arg |-> None,
                      outcome |-> got.outcome, result |-> FALSE,
                      value |-> got.value]
    /\ UNCHANGED <<storeVars, postsVars, authVars, localStorage, app, net>>

(* utils.isAuthenticated() *)
IsAuthenticated ==
    /\ helperCall' = [fn |-> "isAuthenticated", arg |-> None,
                      outcome |-> "return",
                      result |-> isAuthenticated(localStorage),
                      value |-> NullValue]
    /\ UNCHANGED <<storeVars, postsVars, authVars, localStorage, app, net>>

(* utils.clearAuth(); before is the cache the call found *)
ClearAuth ==
    /\ helperCall' = [fn |-> "clearAuth", arg |-> None, outcome |-> "return",
                      result |-> FALSE, value |-> NullValue,
                      before |-> localStorage]
    /\ localStorage' = clearAuth(localStorage)
    /\ UNCHANGED <<storeVars, postsVars, authVars, app, net>>

----------------------------------------------------------------------------
(* App.tsx App and LoginForm; api.ts login, getPosts, handleError *)

(* What the login form is filled with *)
ClientCredentials ==
    { [email |-> "a@x", password |-> "pw1"],
      [email |-> "b@x", password |-> "pw2"],
      [email |-> "a@x", password |-> "bad"] }

(* api.login: JSON.stringify({ email, password }), as the handler parses it *)
apiLoginBody(email, password) ==
    [kind |-> "object", email |-> email, password |-> password,
     action |-> Undefined]

(* handleResponse: response.ok, a status in 200..299; otherwise it throws *)
ResponseOk(response) == response.statusCode \in 200..299

(* What a deployment of the auth handler at API_BASE_URL answers a POST *)
LoginResponses ==
    { AuthHandler([httpMethod |-> "POST", body |-> b], ok) :
        b \in AuthBodies, ok \in BOOLEAN }

(* response.user as the client keeps it, in memory and through             *)
(* JSON.stringify / JSON.parse in the cache                                *)
UserOfResponse(u) == UserValue(u.id, u.role)

loginStoreTokenOnly(cache, body) == [cache EXCEPT !.token = body.token]

(* App.login: setItem('token', response.token);                            *)
(*            setItem('user', JSON.stringify(response.user))               *)
loginStore(cache, body) ==
    [token |-> body.token, user |-> JsonEntry(UserOfResponse(body.user))]

RemoveAt(seq, i) == SubSeq(seq, 1, i - 1) \o SubSeq(seq, i + 1, Len(seq))

(* fetchPosts up to its await: api.getPosts has sent GET /posts *)
fetchPostsStart(n, cache) ==
    [n EXCEPT !.fetches =
        Append(@, [phase |-> "sent", header |-> getAuthHeaders(cache),
                   response |-> NoResponse])]

Pages == {"home", "create", "login"}

(* The mount effect of App: restore the saved user, then fetchPosts().     *)
(* getItem('user') and JSON.parse act as in utils.getCurrentUser; a parse  *)
(* that throws ends the effect before fetchPosts.                          *)
Mount ==
    /\ ~app.mounted
    /\ LET saved == getCurrentUser(localStorage) IN
       IF saved.outcome = "throw"
       THEN /\ app' = [app EXCEPT !.mounted = TRUE]
            /\ net' = net
       ELSE /\ app' = [app EXCEPT !.mounted = TRUE, !.user = saved.value]
            /\ net' = fetchPostsStart(net, localStorage)
    /\ UNCHANGED <<storeVars, postsVars, authVars, localStorage, helperCall>>

(* setCurrentPage(page).  The buttons that lead to 'login' are rendered    *)
(* while user is null.  Leaving 'login' unmounts the LoginForm: its        *)
(* isLoading is gone, and a form rendered later starts with FALSE.         *)
Navigate ==
    \E page \in Pages :
        /\ app.mounted
        /\ page # app.currentPage
        /\ page = "login" => app.user.isNull
        /\ app' = [app EXCEPT !.currentPage = page, !.isLoading = FALSE]
        /\ net' = [net EXCEPT !.logins =
                      [i \in DOMAIN @ |-> [@[i] EXCEPT !.form = FALSE]]]
        /\ UNCHANGED <<storeVars, postsVars, authVars, localStorage,
                       helperCall>>

(* LoginForm.handleSubmit up to `await onLogin`, App.login up to           *)
(* `await api.login`: the submit button is disabled while isLoading.       *)
LoginFormHandleSubmit ==
    \E c \in ClientCredentials :
        /\ app.mounted
        /\ app.currentPage = "login"
        /\ ~app.isLoading
        /\ Len(net.logins) < MaxInFlight
        /\ app' = [app EXCEPT !.isLoading = TRUE, !.loading = TRUE]
        /\ net' = [net EXCEPT !.logins =
                      Append(@, [email |-> c.email, password |-> c.password,
                                 stale |-> FALSE, form |-> TRUE])]
        /\ UNCHANGED <<storeVars, postsVars, authVars, localStorage,
                       helperCall>>

(* App.login from the answer of api.login on, and the rest of              *)
(* LoginForm.handleSubmit: handleResponse throws unless response.ok.       *)
LoginDone(i, response) ==
    LET rec == net.logins[i]
        ok  == ResponseOk(response)
    IN
    /\ app' = [app EXCEPT
                  !.user = IF ok THEN UserOfResponse(response.body.user) ELSE @,
                  !.loading = FALSE,
                  !.isLoading = IF rec.form THEN FALSE ELSE @]
    /\ localStorage' = IF ok THEN loginStore(localStorage, response.body)
                       ELSE localStorage
    /\ net' = [net EXCEPT
                  !.logins = RemoveAt(@, i),
                  !.lastLogin = [email |-> rec.email, password |-> rec.password,
                                 stale |-> rec.stale,
                                 statusCode |-> response.statusCode],
                  !.loggedOut = IF ok /\ ~rec.stale THEN FALSE ELSE @]

(* A login in flight reaches the auth handler of this repository, and its  *)
(* answer reaches the client                                               *)
LoginServed ==
    \E i \in DOMAIN net.logins, ok \in BOOLEAN :
        LET body == apiLoginBody(net.logins[i].email, net.logins[i].password)
        IN
        /\ AuthExchange("POST", body, ok)
        /\ LoginDone(i, AuthHandler([httpMethod |-> "POST", body |-> body], ok))
        /\ UNCHANGED <<storeVars, helperCall>>

(* A login in flight is answered by the deployment at API_BASE_URL *)
LoginAnswered ==
    \E i \in DOMAIN net.logins, response \in LoginResponses :
        /\ LoginDone(i, response)
        /\ UNCHANGED <<storeVars, postsVars, authVars, helperCall>>

(* App.logout; its button is rendered while user is set *)
Logout ==
    /\ app.mounted
    /\ ~app.user.isNull
    /\ app' = [app EXCEPT !.user = NullValue]
    /\ localStorage' = [token |-> NoToken, user |-> AbsentEntry]
    /\ net' = [net EXCEPT
                  !.logins = [i \in DOMAIN @ |-> [@[i] EXCEPT !.stale = TRUE]],
                  !.loggedOut = TRUE]
    /\ UNCHANGED <<storeVars, postsVars, authVars, helperCall>>

(* api.handleError(error): on error.response?.status === 401 both entries  *)
(* are removed and window.location.href = '/login' reloads the page, which *)
(* drops the React state and the requests in flight.  It always rethrows.  *)
HandleError ==
    \E status \in {"401", "500", Undefined} :
        /\ helperCall' = [fn |-> "handleError", arg |-> status,
                          outcome |-> "throw", result |-> FALSE,
                          value |-> NullValue]
        /\ IF status = "401"
           THEN /\ localStorage' = [token |-> NoToken, user |-> AbsentEntry]
                /\ app' = AppInit
                /\ net' = [net EXCEPT !.logins = <<>>, !.fetches = <<>>]
           ELSE UNCHANGED <<localStorage, app, net>>
        /\ UNCHANGED <<storeVars, postsVars, authVars>>

(* CreatePost.handleSubmit with the posts handler's answer: the form is    *)
(* rendered on page 'create' while user is set; onSuccess() runs after a   *)
(* response that is ok, and calls fetchPosts() and setCurrentPage('home'). *)
CreatePostHandleSubmit ==
    \E input \in TagInputs, ok \in BOOLEAN :
        LET event == [httpMethod |-> "POST",
                      header |-> getAuthHeaders(localStorage),
                      body |-> PostBody("t", TagList(ParseTags(input)),
                                        Undefined)]
            out   == PostsHandler(event, ok, posts, tags)
        IN
        /\ app.mounted
        /\ app.currentPage = "create"
        /\ ~app.user.isNull
        /\ Serve(event, ok, "client")
        /\ IF ResponseOk(out.resp)
           THEN /\ app' = [app EXCEPT !.currentPage = "home"]
                /\ net' = fetchPostsStart(net, localStorage)
           ELSE UNCHANGED <<app, net>>
        /\ UNCHANGED <<localStorage, helperCall>>

(* A GET /posts in flight reaches the posts handler *)
FetchServed ==
    \E i \in DOMAIN net.fetches, ok \in BOOLEAN :
        LET f     == net.fetches[i]
            event == [httpMethod |-> "GET", header |-> f.header,
                      body |-> AbsentBody]
        IN
        /\ f.phase = "sent"
        /\ Serve(event, ok, "client")
        /\ net' = [net EXCEPT !.fetches[i] =
                      [f EXCEPT !.phase = "answered",
                                !.response =
                                    PostsHandler(event, ok, posts, tags).resp]]
        /\ UNCHANGED <<localStorage, helperCall, app>>

(* fetchPosts from the answer of api.getPosts on: setPosts(fetchedPosts),  *)
(* or the catch when handleResponse throws                                 *)
FetchDelivered ==
    \E i \in DOMAIN net.fetches :
        LET f == net.fetches[i] IN
        /\ f.phase = "answered"
        /\ app' = [app EXCEPT !.posts = IF ResponseOk(f.response)
                                        THEN f.response.body.items ELSE @]
        /\ net' = [net EXCEPT !.fetches[i].phase =
                      IF ResponseOk(f.response) THEN "done" ELSE "failed"]
        /\ UNCHANGED <<storeVars, postsVars, authVars, localStorage,
                       helperCall>>

AuthInit == ServerInit /\ localStorage = EmptyCache
AuthNext == AuthRequest
AuthSpec == AuthInit /\ [][AuthNext]_vars

PostsInit == ServerInit /\ localStorage = LoggedInCache
PostsNext == GetPosts \/ PostPosts \/ OtherMethod \/ ClientCreatePost \/ Login
PostsSpec == PostsInit /\ [][PostsNext]_vars

HelperInit ==
    /\ ServerInit
    /\ localStorage \in [token : {NoToken, jwtSign("u1", JWT_SECRET)},
                         user : UserEntries]
HelperNext == HasPermission \/ GetCurrentUser \/ IsAuthenticated \/ ClearAuth
HelperSpec == HelperInit /\ [][HelperNext]_vars

(* Both handlers under every request, with up to MaxHandlerPosts rows      *)
(* stored                                                                  *)
HandlersInit == ServerInit /\ localStorage = LoggedInCache
HandlersNext ==
    /\ \/ AuthRequest \/ GetPosts \/ PostPosts \/ OtherMethod
       \/ ClientCreatePost
    /\ Len(posts') <= MaxHandlerPosts
HandlersSpec == HandlersInit /\ [][HandlersNext]_vars

(* The client's login against the auth handler of this repository *)
SiteInit == ServerInit /\ localStorage \in {EmptyCache, LoggedInCache}
SiteNext ==
    Mount \/ Navigate \/ LoginFormHandleSubmit \/ LoginServed \/ Logout
SiteSpec == SiteInit /\ [][SiteNext]_vars

(* The client's post list against the posts handler of this repository *)
FeedInit == ServerInit /\ localStorage \in {EmptyCache, LoggedInCache}
FeedNext ==
    \/ Mount \/ Navigate \/ CreatePostHandleSubmit
    \/ FetchServed \/ FetchDelivered
FeedSpec == FeedInit /\ [][FeedNext]_vars

(* The client's session against any deployment that answers as the auth    *)
(* handler can                                                             *)
ClientInit == ServerInit /\ localStorage \in {EmptyCache, LoggedInCache}
ClientNext ==
    \/ Mount \/ Navigate \/ LoginFormHandleSubmit \/ LoginAnswered \/ Logout
    \/ ClearAuth \/ HandleError
ClientSpec == ClientInit /\ [][ClientNext]_vars

----------------------------------------------------------------------------
(* Properties *)

StoredHashes == { u.password : u \in StoredUsers }

IsLoginRequest(r) ==
    /\ r.httpMethod = "POST"
    /\ r.body.kind = "object"
    /\ r.body.action = "login"
    /\ IsString(r.body.email)
    /\ IsString(r.body.password)
    /\ r.dbOk

Matching(r) ==
    { u \in StoredUsers : /\ u.email = r.body.email
                          /\ u.password = BcryptHashed(r.body.password) }

(* C1: a login whose (email, password) matches a stored identity returns   *)
(* 200 with a token that verifyToken decodes to that identity's id; a      *)
(* login with an unknown email or a wrong password returns 401 and no      *)
(* token.                                                                  *)
C1_LoginIssuesVerifiableToken ==
    IsLoginRequest(authReq) =>
        IF Matching(authReq) # {}
        THEN /\ authResp.statusCode = 200
             /\ "token" \in DOMAIN authResp.body
             /\ \A u \in Matching(authReq) :
                    verifyToken(authResp.body.token).userId = u.id
        ELSE /\ authResp.statusCode = 401
             /\ "token" \notin DOMAIN authResp.body

C1_Witness ==
    /\ IsLoginRequest(authReq)
    /\ authReq.body.email = "b@x"
    /\ authReq.body.password = "pw2"
    /\ authResp.statusCode = 200
    /\ verifyToken(authResp.body.token).userId = "u2"

IsCreateRequest(r) ==
    /\ r.httpMethod = "POST"
    /\ r.header \in ValidHeaders
    /\ r.body.kind = "object"
    /\ r.body.tags.kind = "list"
    /\ r.dbOk

TokenUser(header) == header.rest[1].userId

(* C2: a create with a valid token of identity A returns 201 and stores an *)
(* article whose author is A, whatever author the body names; every stored *)
(* article's author is the userId of the token that created it.            *)
C2_AuthorIsTokenIdentity ==
    /\ Len(createdBy) = Len(posts)
    /\ \A i \in 1..Len(posts) :
          /\ createdBy[i] \in ValidHeaders
          /\ posts[i].authorId = TokenUser(createdBy[i])
    /\ IsCreateRequest(postsReq) =>
          /\ postsResp.statusCode = 201
          /\ postsResp.body.authorId = TokenUser(postsReq.header)
          /\ postsResp.body.author.id = TokenUser(postsReq.header)
          /\ Len(posts) > 0
          /\ posts[Len(posts)].id = postsResp.body.id
          /\ posts[Len(posts)].authorId = TokenUser(postsReq.header)

C2_Witness ==
    /\ IsCreateRequest(postsReq)
    /\ TokenUser(postsReq.header) = "u1"
    /\ postsReq.body.author = "u2"
    /\ postsResp.statusCode = 201
    /\ posts[Len(posts)].authorId = "u1"

(* C3: a create with no Authorization header, or with a token that fails   *)
(* verification, is answered 401 Unauthorized, makes no storage call and   *)
(* leaves posts and tags as they were; a failed verification is answered   *)
(* exactly as an absent token is.                                          *)
C3_UnauthenticatedCreateRejected ==
    [][ (postsReq'.httpMethod = "POST" /\ postsReq'.header \in InvalidHeaders)
        => /\ postsResp' = Unauthorized
           /\ dbCalls' = 0
           /\ posts' = posts
           /\ tags' = tags ]_vars

C3_Witness ==
    /\ postsReq.httpMethod = "POST"
    /\ postsReq.header = Bearer(ForgedToken)
    /\ postsReq.body.kind = "object"
    /\ postsResp.statusCode = 401
    /\ Len(posts) = 1

(* C4: update (PUT) and delete (DELETE) sent without a valid token are     *)
(* answered 401 Unauthorized before storage is touched.                    *)
C4_OtherWritesUnauthorized ==
    (postsReq.httpMethod \in {"PUT", "DELETE"} /\ postsReq.header \in InvalidHeaders)
        => (postsResp.statusCode = 401 /\ dbCalls = 0)

SamePost(view, row) ==
    /\ view.id = row.id
    /\ view.title = row.title
    /\ view.authorId = row.authorId
    /\ view.author.id = row.authorId
    /\ { t.id : t \in view.tags } = row.tags

(* C5: a GET returns 200 with all stored articles, in every storage state  *)
(* and for every Authorization header, and leaves storage unchanged.       *)
C5_ReadIsOpen ==
    [][ postsReq'.httpMethod = "GET"
        => /\ posts' = posts
           /\ tags' = tags
           /\ postsReq'.dbOk =>
                 /\ postsResp'.statusCode = 200
                 /\ Len(postsResp'.body.items) = Len(posts)
                 /\ \A i \in 1..Len(posts) :
                       SamePost(postsResp'.body.items[i], posts[i]) ]_vars

C5_Witness ==
    /\ postsReq.httpMethod = "GET"
    /\ postsReq.header = Bearer(GarbageToken)
    /\ postsResp.statusCode = 200
    /\ Len(postsResp.body.items) = 2

Range(seq) == { seq[i] : i \in 1..Len(seq) }

(* C6: tags are get-or-create by name: a create associates exactly one tag *)
(* per distinct name of its tag list, also when the list repeats a name,   *)
(* and no two stored tag records ever share a name.                        *)
C6_TagsGetOrCreate ==
    /\ \A i, j \in 1..Len(tags) : tags[i].name = tags[j].name => i = j
    /\ \A i \in 1..Len(tags) : tags[i].id = i
    /\ IsCreateRequest(postsReq) =>
          /\ postsResp.statusCode = 201
          /\ { t.name : t \in postsResp.body.tags } = Range(postsReq.body.tags.names)
          /\ Cardinality(postsResp.body.tags)
                = Cardinality(Range(postsReq.body.tags.names))
          /\ postsResp.body.tags = { tags[i] : i \in posts[Len(posts)].tags }

C6_Witness ==
    /\ IsCreateRequest(postsReq)
    /\ postsReq.via = "client"
    /\ postsReq.body.tags.names = <<TagA, TagA, TagB>>
    /\ postsResp.statusCode = 201
    /\ Cardinality(postsResp.body.tags) = 2
    /\ Len(posts) = 2
    /\ posts[1].tags \cap posts[2].tags # {}
    /\ Len(tags) = 2

NoSecret(obj) ==
    /\ "password" \notin DOMAIN obj
    /\ \A k \in DOMAIN obj : obj[k] \notin StoredHashes

(* C7: no response body of either handler carries a stored password hash:  *)
(* the user of a 200 login response has no password field, and neither has *)
(* the author of any article a GET or a create returns.                    *)
C7_NoPasswordInResponses ==
    /\ "password" \notin DOMAIN authResp.body
    /\ authResp.statusCode = 200 => NoSecret(authResp.body.user)
    /\ postsResp.statusCode = 200 =>
          \A i \in 1..Len(postsResp.body.items) :
              NoSecret(postsResp.body.items[i].author)
    /\ postsResp.statusCode = 201 => NoSecret(postsResp.body.author)

C7_Witness ==
    /\ authResp.statusCode = 200
    /\ authResp.body.user.id = "u1"
    /\ authResp.body.user.email = "a@x"
    /\ Len(posts) = 1

(* Why a login request fails, told from the request and the user table *)
FailureCause(r) ==
    IF /\ r.httpMethod = "POST"
       /\ r.body.kind = "object"
       /\ r.body.action = "login"
       /\ IsString(r.body.email)
       /\ r.dbOk
    THEN IF \A u \in StoredUsers : u.email # r.body.email
         THEN "unknown_email"
         ELSE IF IsString(r.body.password) /\ Matching(r) = {}
              THEN "wrong_password"
              ELSE None
    ELSE None

(* C8: a login that fails on an unknown email and a login that fails on a  *)
(* wrong password get the same status code, 401, and the same body.        *)
C8_FailuresIndistinguishable ==
    [][ (FailureCause(authReq) # None /\ FailureCause(authReq') # None)
        => /\ authResp'.statusCode = 401
           /\ authResp' = authResp ]_vars

C8_Witness ==
    /\ FailureCause(authReq) = "wrong_password"
    /\ authReq.body.email = "a@x"
    /\ authResp.statusCode = 401

Rank(role) ==
    CASE role = "admin" -> 3 [] role = "teacher" -> 2 [] role = "student" -> 1
      [] OTHER -> 0

CachedUserExists ==
    /\ localStorage.user.present
    /\ localStorage.user.wellFormed
    /\ ~localStorage.user.value.isNull

(* C9: hasPermission(requiredRole) returns true exactly when a cached user *)
(* exists, the user's role and requiredRole are both among student,        *)
(* teacher and admin, and the user's rank is at least the required rank;   *)
(* an unknown role string on either side gives false.                      *)
C9_HasPermissionIffRanked ==
    (helperCall.fn = "hasPermission" /\ helperCall.outcome = "return")
        => ( helperCall.result
               <=> /\ CachedUserExists
                   /\ localStorage.user.value.role \in KnownRoles
                   /\ helperCall.arg \in KnownRoles
                   /\ Rank(localStorage.user.value.role) >= Rank(helperCall.arg) )

(* C10: getCurrentUser never throws: it returns the parsed identity when   *)
(* the cached 'user' entry is well-formed and null when the entry is       *)
(* absent or corrupt; hasPermission on a corrupt cache returns false.      *)
C10_GetCurrentUserNeverThrows ==
    /\ helperCall.fn = "getCurrentUser" =>
          /\ helperCall.outcome = "return"
          /\ helperCall.value = IF localStorage.user.present
                                   /\ localStorage.user.wellFormed
                                THEN localStorage.user.value
                                ELSE NullValue
    /\ (helperCall.fn = "hasPermission" /\ ~localStorage.user.wellFormed) =>
          (helperCall.outcome = "return" /\ ~helperCall.result)

(* C11: from every cache state clearAuth removes the cached token and the  *)
(* cached user, so that isAuthenticated() is false and getCurrentUser() is *)
(* null right after it; a second clearAuth does not fail and leaves the    *)
(* cache as the first one left it.                                         *)
C11_ClearAuthClearsBoth ==
    [][ helperCall'.fn = "clearAuth"
        => /\ helperCall'.outcome = "return"
           /\ helperCall'.before = localStorage
           /\ ~localStorage'.token.form = "jwt"
           /\ ~localStorage'.user.present
           /\ ~isAuthenticated(localStorage')
           /\ getCurrentUser(localStorage') = Returned(NullValue)
           /\ clearAuth(localStorage') = localStorage' ]_vars

C11_Witness ==
    /\ helperCall.fn = "clearAuth"
    /\ helperCall.before.token.form = "jwt"
    /\ helperCall.before.user = CorruptEntry
    /\ ~isAuthenticated(localStorage)

AuthStatuses  == {200, 400, 401, 405, 500}
PostsStatuses == {200, 201, 401, 405, 500}

(* The inputs of a login that make the handler's code throw *)
LoginThrows(r) ==
    /\ r.httpMethod = "POST"
    /\ \/ r.body.kind = "corrupt"
       \/ /\ r.body.kind = "object"
          /\ r.body.action = "login"
          /\ \/ ~IsString(r.body.email)
             \/ ~r.dbOk
             \/ /\ ~IsString(r.body.password)
                /\ \E u \in StoredUsers : u.email = r.body.email

(* The inputs of a posts request that make the handler's code throw *)
PostsThrows(r) ==
    \/ r.httpMethod = "GET" /\ ~r.dbOk
    \/ /\ r.httpMethod = "POST"
       /\ r.header \in ValidHeaders
       /\ \/ r.body.kind = "corrupt"
          \/ r.body.tags.kind # "list"
          \/ ~r.dbOk

(* C12 as stated: every malformed input (unparseable body, missing or      *)
(* non-string email or password on login, missing or non-list tags on      *)
(* create) and every storage failure is answered 500 with the fixed body.  *)
C12_MalformedAlways500 ==
    /\ ( /\ authReq.httpMethod = "POST"
         /\ \/ authReq.body.kind = "corrupt"
            \/ /\ authReq.body.kind = "object"
               /\ authReq.body.action = "login"
               /\ \/ ~IsString(authReq.body.email)
                  \/ ~IsString(authReq.body.password) )
          => authResp = InternalServerError
    /\ ( /\ postsReq.httpMethod = "POST"
         /\ \/ postsReq.body.kind = "corrupt"
            \/ postsReq.body.tags.kind # "list" )
          => postsResp = InternalServerError

(* C12, amended: every invocation of either handler ends with a response   *)
(* of a known status, never with an exception; a response of status 500    *)
(* has the fixed body {message: 'Internal server error'}; the handler      *)
(* answers 500 exactly when its code throws: on an unparseable body, a     *)
(* missing or non-string email, a missing or non-string password for a     *)
(* known email, missing or non-list tags on a create with a valid token,   *)
(* and a failed storage call.  A login with an unknown email and no string *)
(* password is answered 401, and a malformed create without a valid token  *)
(* is answered 401.                                                        *)
C12_HandlersAlwaysRespond ==
    /\ authReq.httpMethod # "none" =>
          /\ authResp.statusCode \in AuthStatuses
          /\ authResp.statusCode = 500 <=> LoginThrows(authReq)
          /\ authResp.statusCode = 500 => authResp = InternalServerError
          /\ ( /\ authReq.httpMethod = "POST"
               /\ authReq.body.kind = "object"
               /\ authReq.body.action = "login"
               /\ authReq.dbOk
               /\ IsString(authReq.body.email)
               /\ ~IsString(authReq.body.password)
               /\ \A u \in StoredUsers : u.email # authReq.body.email )
             => authResp.statusCode = 401
    /\ postsReq.httpMethod # "none" =>
          /\ postsResp.statusCode \in PostsStatuses
          /\ postsResp.statusCode = 500 <=> PostsThrows(postsReq)
          /\ postsResp.statusCode = 500 => postsResp = InternalServerError
          /\ (postsReq.httpMethod = "POST" /\ postsReq.header \in InvalidHeaders)
             => postsResp.statusCode = 401

C12_Witness ==
    /\ postsReq.httpMethod = "POST"
    /\ postsReq.header \in ValidHeaders
    /\ postsReq.body.tags.kind = "string"
    /\ postsResp = InternalServerError
    /\ Len(posts) = 1

(* A step in which a login in flight completes at the client *)
LoginCompletes == app'.mounted /\ Len(net'.logins) < Len(net.logins)

(* The stored identities that a login's credentials match *)
MatchingUsers(l) ==
    { u \in StoredUsers :
        u.email = l.email /\ u.password = BcryptHashed(l.password) }

(* C13: when the client's login completes for credentials matching a       *)
(* stored identity, with storage working, the auth handler has answered    *)
(* the request of api.login with 200, the cache holds the token and the    *)
(* user of that identity, isAuthenticated() is true, and the Authorization *)
(* header of the next request verifies to that identity at the posts       *)
(* handler.                                                                *)
C13_EndToEndLogin ==
    [][ (LoginCompletes /\ MatchingUsers(net'.lastLogin) # {} /\ authReq'.dbOk)
        => LET u == CHOOSE x \in MatchingUsers(net'.lastLogin) : TRUE IN
           /\ authResp'.statusCode = 200
           /\ localStorage'.token = jwtSign(u.id, JWT_SECRET)
           /\ localStorage'.user = JsonEntry(UserValue(u.id, u.role))
           /\ isAuthenticated(localStorage')
           /\ decodedOf(getAuthHeaders(localStorage')).userId = u.id ]_vars

(* C14: once logout has run, the cached token, the cached user and the     *)
(* in-memory user stay absent until a login started after that logout      *)
(* completes successfully; a login that was in flight when logout ran      *)
(* restores none of them when it completes.                                *)
C14_LogoutIsFinal ==
    net.loggedOut => /\ ~isAuthenticated(localStorage)
                     /\ ~localStorage.user.present
                     /\ app.user.isNull

(* The cached 'token' entry is present exactly when the 'user' entry is *)
Paired(cache) == (cache.token.form # "absent") <=> cache.user.present

(* C15: under login (answered ok or not), logout, clearAuth and            *)
(* handleError, before and after every step the 'token' entry is present   *)
(* iff the 'user' entry is; a login answered ok writes both, a login       *)
(* answered otherwise changes neither, and logout, clearAuth and a 401     *)
(* given to handleError leave both absent.                                 *)
C15_TokenAndUserPaired ==
    [][ /\ Paired(localStorage)
        /\ Paired(localStorage')
        /\ (LoginCompletes /\ net'.lastLogin.statusCode = 200)
              => /\ localStorage'.token.form = "jwt"
                 /\ localStorage'.user.present
        /\ (LoginCompletes /\ net'.lastLogin.statusCode # 200)
              => localStorage' = localStorage
        /\ (net'.loggedOut /\ ~net.loggedOut) => localStorage' = EmptyCache
        /\ (helperCall' # helperCall /\ helperCall'.fn = "clearAuth")
              => localStorage' = EmptyCache
        /\ (helperCall' # helperCall /\ helperCall'.fn = "handleError"
                                     /\ helperCall'.arg = "401")
              => localStorage' = EmptyCache ]_vars

(* After a 401 given to handleError emptied the cache and reloaded the     *)
(* page, a login was answered ok and both entries are present              *)
C15_Witness ==
    /\ helperCall.fn = "handleError"
    /\ helperCall.arg = "401"
    /\ net.lastLogin.statusCode = 200
    /\ localStorage.token.form = "jwt"
    /\ localStorage.user.present

(* Every fetchPosts call started has completed *)
FetchesSettled ==
    \A i \in DOMAIN net.fetches : net.fetches[i].phase \in {"done", "failed"}

(* C16: when several fetchPosts calls were started and all have completed, *)
(* the client's post list is the result of the call started last           *)
(* (provided that call succeeded): an answer to an earlier call that       *)
(* arrives later does not overwrite it.                                    *)
C16_LatestFetchWins ==
    LET n == Len(net.fetches) IN
    (n >= 2 /\ FetchesSettled /\ net.fetches[n].phase = "done")
        => app.posts = net.fetches[n].response.body.items

====
